---------------------------- MODULE Spec2Model ----------------------------
(***************************************************************************)
(* Persona pipeline of Persona_real: the retrying backend invoker          *)
(* (backend/business.py), the density clustering assembly                  *)
(* (backend/clustering.py), the JSON extractor and the persona             *)
(* synthesizer (backend/persona_gen.py) and the batch endpoint             *)
(* (backend/main.py).                                                      *)
(*                                                                         *)
(* Two specifications share the module.  SpecInvoker runs one call of      *)
(* _call_groq_with_retries against an arbitrary backend; Spec runs one     *)
(* batch (process_profiles, or a direct call of generate_personas).        *)
(* The variables of the part a specification does not run stay at their    *)
(* idle value.                                                             *)
(***************************************************************************)
EXTENDS Integers, Sequences, FiniteSets, TLC

VARIABLES
    \* ---- _call_groq_with_retries (business.py:22-40)
    max_retries,    \* argument max_retries
    backoff,        \* argument backoff, in units of 1/Scale second
    attempt,        \* the loop variable of `for attempt in range(max_retries)`
    events,         \* what the call did so far: backend calls and sleeps, in order
    ipc,            \* "idle" | "loop" | "returned" | "raised"
    iresult         \* the value returned, or the error raised

VARIABLES
    \* ---- one batch: process_profiles (main.py:72-88), cluster_embeddings
    \* (clustering.py:13-84), generate_personas (persona_gen.py:64-134)
    entry,            \* the operation called: "process_profiles" | "generate_personas"
    pc,               \* the batch's position
    profiles,         \* the request's profiles (each is its own payload), in input order
    triples,          \* the triples' payloads, in input order
    labels,           \* the label fit_predict gave each triple
    clusters,         \* the cluster mapping, in iteration (insertion) order
    ck,               \* generate_personas: the next item of clusters.items()
    personas,         \* generate_personas: the list personas
    generated_names,  \* generate_personas: the list generated_names
    requests,         \* the generation requests issued, in order
    responses,        \* what llm.invoke answered to each request
    outcome           \* what the caller of the batch operation got

VARIABLES
    \* ---- one call of cluster_embeddings (clustering.py:13-84)
    ce_n,                  \* n = len(triples)
    min_cluster_fraction,  \* argument min_cluster_fraction, in units of 1/FracDen
    min_cluster_size,      \* the local min_cluster_size, 0 before it is computed
    fit_calls,             \* the calls of the clustering method made so far
    ce_labels,             \* the labels fit_predict returned
    ce_pc,                 \* "idle" | "called" | "sized" | "returned" | "raised"
    ce_result              \* the mapping returned, or the error raised

VARIABLES
    \* ---- calls of the two extractors on one text: _extract_json of
    \* persona_gen.py (32-61) and _extract_json of business.py (43-64)
    ex_obj,        \* a text
    ex_wrap,       \* what surrounds it in the raw text: fences, prose, blanks
    ex_raw,        \* the raw text: ex_obj inside ex_wrap
    ex_pg,         \* persona_gen._extract_json(ex_raw)
    ex_pg_obj,     \* persona_gen._extract_json(ex_obj)
    ex_bz,         \* business._extract_json(ex_raw)
    ex_bz_obj      \* business._extract_json(ex_obj)

VARIABLES
    \* ---- two calls of generate_personas running concurrently
    runs,          \* for each call: its argument, its locals, its position, its outcome
    schedule       \* the call that took each step so far

VARIABLES
    \* ---- the loop body of generate_personas for one cluster, with the calls
    \* llm.invoke makes to the backend (persona_gen.py:21-29, 79-132)
    llm_label,     \* the cluster's label
    llm_names,     \* generated_names when the body starts
    llm_calls,     \* the backend calls llm.invoke made so far: their statuses
    llm_pc,        \* "idle" | "invoking" | "appended" | "raised"
    llm_result     \* the persona appended, or the error raised

ivars == <<max_retries, backoff, attempt, events, ipc, iresult>>
bvars == <<entry, pc, profiles, triples, labels, clusters, ck, personas, generated_names,
           requests, responses, outcome>>

cvars == <<ce_n, min_cluster_fraction, min_cluster_size, fit_calls, ce_labels, ce_pc,
           ce_result>>

xvars == <<ex_obj, ex_wrap, ex_raw, ex_pg, ex_pg_obj, ex_bz, ex_bz_obj>>

pvars == <<runs, schedule>>

lvars == <<llm_label, llm_names, llm_calls, llm_pc, llm_result>>

vars == <<ivars, bvars, cvars, xvars, pvars, lvars>>

\* what a step of the invoker, of the batch, of cluster_embeddings, of an
\* extractor leaves alone
besideInvoker == <<bvars, cvars, xvars, pvars, lvars>>
besideBatch == <<ivars, cvars, xvars, pvars, lvars>>
besideCluster == <<ivars, bvars, xvars, pvars, lvars>>
besideExtract == <<ivars, bvars, cvars, pvars, lvars>>
besidePair == <<ivars, bvars, cvars, xvars, lvars>>
besideLlm == <<ivars, bvars, cvars, xvars, pvars>>

--------------------------------------------------------------------------
(* Bounds and program constants *)

\* time is counted in 1/Scale second: random.random() takes Scale values in [0,1)
Scale == 2
\* the largest backoff argument tried, in 1/Scale second
MaxBackoffUnits == 3
\* default of the argument max_retries (business.py:22)
DefaultMaxRetries == 5
\* default of the argument backoff, in seconds (business.py:22)
DefaultBackoff == 1

\* `if resp.status_code == 200` (business.py:33)
STATUS_OK == 200
\* `if resp.status_code == 429` (business.py:35)
STATUS_RATE_LIMIT == 429

\* the response statuses the backend may answer with
Statuses == {200, 201, 404, 429, 503}
\* the JSON documents an ok response may carry
Bodies == {"doc1", "doc2"}

RECURSIVE Pow2(_)
Pow2(k) == IF k = 0 THEN 1 ELSE 2 * Pow2(k - 1)

--------------------------------------------------------------------------
(* _call_groq_with_retries *)

NoResult == [kind |-> "none", body |-> "", retries |-> 0, status |-> 0]

CallEvent(status, body) == [ev |-> "call", status |-> status, body |-> body, wait |-> 0]
SleepEvent(w) == [ev |-> "sleep", status |-> 0, body |-> "", wait |-> w]
\* requests.post raised instead of answering (timeout=30, connection error)
TransportStatus == 0

\* a backoff that grows linearly instead of doubling
WaitLinear(b, k, jitter) == b * (k + 1) + jitter

\* wait = backoff * (2 ** attempt) + random.random(), in 1/Scale second
Wait(b, k, jitter) == b * Pow2(k) + jitter

\* a loop that runs once more than max_retries
LoopContinuesOffByOne(a, m) == a <= m

\* `for attempt in range(max_retries)`: the body runs while attempt < max_retries
LoopContinues(a, m) == a < m

\* a rate-limit branch that continues without sleeping
AfterRateLimitNoSleep(evts, w) == evts
\* variant: the sleep is performed twice
AfterRateLimitSleepsTwice(evts, w) == Append(Append(evts, SleepEvent(w)), SleepEvent(w))

\* time.sleep(wait); continue
AfterRateLimit(evts, w) == Append(evts, SleepEvent(w))

\* resp.raise_for_status(): raises HTTPError for a 4xx or 5xx status, returns otherwise
RaisesForStatus(status) == status >= 400 /\ status < 600

\* resp.json(): the decoded document of the response
RespJson(body) == [doc |-> body]

\* the batch variables of a run that holds no batch
BatchIdle ==
    /\ entry = "none"
    /\ pc = "idle"
    /\ profiles = <<>>
    /\ triples = <<>>
    /\ labels = <<>>
    /\ clusters = <<>>
    /\ ck = 0
    /\ personas = <<>>
    /\ generated_names = <<>>
    /\ requests = <<>>
    /\ responses = <<>>
    /\ outcome = [kind |-> "none", detail |-> <<>>, personas |-> <<>>]

NoClusterResult == [kind |-> "none", clusters |-> <<>>]

\* the variables of cluster_embeddings in a run that holds no call of it
ClusterIdle ==
    /\ ce_n = 0
    /\ min_cluster_fraction = 0
    /\ min_cluster_size = 0
    /\ fit_calls = <<>>
    /\ ce_labels = <<>>
    /\ ce_pc = "idle"
    /\ ce_result = NoClusterResult

\* an extractor call that was not made
NoTrace == [run |-> FALSE, text |-> <<>>, found |-> FALSE, candidate |-> <<>>,
            ok |-> FALSE, err |-> "", dict |-> <<>>, repaired |-> FALSE]

\* the variables of the extractors in a run that holds no call of them
ExtractIdle ==
    /\ ex_obj = <<>>
    /\ ex_wrap = "idle"
    /\ ex_raw = <<>>
    /\ ex_pg = NoTrace
    /\ ex_pg_obj = NoTrace
    /\ ex_bz = NoTrace
    /\ ex_bz_obj = NoTrace

\* the variables of the concurrent calls in a run that holds none
PairIdle ==
    /\ runs = <<>>
    /\ schedule = <<>>

NoLlmResult == [kind |-> "none", detail |-> <<>>, persona |-> <<>>]

\* the variables of the loop body in a run that holds none
LlmIdle ==
    /\ llm_label = 0
    /\ llm_names = <<>>
    /\ llm_calls = <<>>
    /\ llm_pc = "idle"
    /\ llm_result = NoLlmResult

\* the variables of the parts a run of the invoker does not hold
InvokerAlone == BatchIdle /\ ClusterIdle /\ ExtractIdle /\ PairIdle /\ LlmIdle

InvokerInit ==
    /\ max_retries \in 0..DefaultMaxRetries
    /\ backoff \in 0..MaxBackoffUnits
    /\ attempt = 0
    /\ events = <<>>
    /\ ipc = "loop"
    /\ iresult = NoResult
    /\ InvokerAlone

\* status 200: return resp.json()
CallOk ==
    /\ ipc = "loop"
    /\ LoopContinues(attempt, max_retries)
    /\ \E body \in Bodies :
        /\ events' = Append(events, CallEvent(STATUS_OK, body))
        /\ iresult' = [kind |-> "return", body |-> RespJson(body).doc, retries |-> 0,
                       status |-> STATUS_OK]
    /\ ipc' = "returned"
    /\ UNCHANGED <<max_retries, backoff, attempt>>
    /\ UNCHANGED besideInvoker

\* status 429: sleep backoff * 2^attempt + jitter, then continue with the next attempt
CallRateLimited ==
    /\ ipc = "loop"
    /\ LoopContinues(attempt, max_retries)
    /\ \E jitter \in 0..(Scale - 1) :
        events' = AfterRateLimit(Append(events, CallEvent(STATUS_RATE_LIMIT, "")),
                                 Wait(backoff, attempt, jitter))
    /\ attempt' = attempt + 1
    /\ UNCHANGED <<max_retries, backoff, ipc, iresult>>
    /\ UNCHANGED besideInvoker

\* any other status: resp.raise_for_status(), which raises only for 4xx and 5xx;
\* when it returns, the loop body ends and the next attempt starts
CallOther ==
    /\ ipc = "loop"
    /\ LoopContinues(attempt, max_retries)
    /\ \E status \in Statuses \ {STATUS_OK, STATUS_RATE_LIMIT} :
        /\ events' = Append(events, CallEvent(status, ""))
        /\ IF RaisesForStatus(status)
           THEN /\ ipc' = "raised"
                /\ iresult' = [kind |-> "HTTPError", body |-> "", retries |-> 0,
                               status |-> status]
                /\ UNCHANGED attempt
           ELSE /\ attempt' = attempt + 1
                /\ UNCHANGED <<ipc, iresult>>
    /\ UNCHANGED <<max_retries, backoff>>
    /\ UNCHANGED besideInvoker

\* requests.post raises (timeout, connection error): the exception propagates
CallTransportError ==
    /\ ipc = "loop"
    /\ LoopContinues(attempt, max_retries)
    /\ events' = Append(events, CallEvent(TransportStatus, ""))
    /\ ipc' = "raised"
    /\ iresult' = [kind |-> "RequestException", body |-> "", retries |-> 0,
                   status |-> TransportStatus]
    /\ UNCHANGED <<max_retries, backoff, attempt>>
    /\ UNCHANGED besideInvoker

\* the loop is exhausted: raise HTTPException(500, "Rate limit: exceeded {max_retries} retries")
Exhausted ==
    /\ ipc = "loop"
    /\ ~LoopContinues(attempt, max_retries)
    /\ ipc' = "raised"
    /\ iresult' = [kind |-> "RateLimitExceeded", body |-> "", retries |-> max_retries,
                   status |-> 500]
    /\ UNCHANGED <<max_retries, backoff, attempt, events>>
    /\ UNCHANGED besideInvoker

InvokerNext ==
    \/ CallOk
    \/ CallRateLimited
    \/ CallOther
    \/ CallTransportError
    \/ Exhausted

SpecInvoker == InvokerInit /\ [][InvokerNext]_vars

--------------------------------------------------------------------------
(* Text.  A text is a sequence of tokens: a token is one punctuation       *)
(* character, one whitespace character, the fence marker of three          *)
(* backticks, or a maximal run of word characters (\w+).                   *)

LBRACE == "{"
RBRACE == "}"
LBRACK == "["
RBRACK == "]"
COLON == ":"
COMMA == ","
QUOTE == "\""
DASH == "-"
DOT == "."
SP == " "
NL == "\n"
\* the fence marker: three backticks
FENCE == "<fence>"
\* what At answers beyond the end of a text
EOT == ""

\* str.strip() and the regular expressions' \s
Whitespace == {SP, NL}
\* runs of digits (\d+)
DigitRuns == {"1", "28", "35"}
\* the JSON literals
JsonLiterals == {"true", "false", "null"}
\* runs of word characters that are not all digits
WordRuns == {"persona_name", "demographics", "goals", "pain_points", "channels",
             "content_preferences", "marketing_strategy", "extra", "age", "json",
             "Ann", "Bob", "Cy", "a", "b", "sorry", "none", "cluster", "names",
             "range", "bye"}
             \cup JsonLiterals
\* \w+
IsWord(t) == t \in WordRuns \cup DigitRuns

At(s, i) == IF i \in 1..Len(s) THEN s[i] ELSE EOT

\* the member of a one-element set; Only({F(x) : x \in {e}}) is F(e) with e computed once
Only(S) == CHOOSE x \in S : TRUE

\* str.strip(): drop the leading and the trailing whitespace
Strip(s) ==
    LET keep == {i \in 1..Len(s) : s[i] \notin Whitespace}
    IN  IF keep = {} THEN <<>>
        ELSE SubSeq(s, CHOOSE i \in keep : \A j \in keep : i <= j,
                       CHOOSE i \in keep : \A j \in keep : i >= j)

\* str.find(tok): the first index of tok, 0 when there is none (Python: -1)
Find(s, tok) ==
    LET at == {i \in 1..Len(s) : s[i] = tok}
    IN  IF at = {} THEN 0 ELSE CHOOSE i \in at : \A j \in at : i <= j

\* str.split(sep): the pieces between the occurrences of sep, in order
RECURSIVE Split(_, _)
Split(s, sep) ==
    LET i == Find(s, sep)
    IN  IF i = 0 THEN <<s>>
        ELSE <<SubSeq(s, 1, i - 1)>> \o Split(SubSeq(s, i + 1, Len(s)), sep)

\* sub in text: sub occurs in s as a contiguous run
Contains(s, sub) ==
    \E i \in 0..(Len(s) - Len(sub)) : SubSeq(s, i + 1, i + Len(sub)) = sub

\* the smallest index >= i that holds no whitespace (Len(s)+1 when none)
RECURSIVE SkipWs(_, _)
SkipWs(s, i) == IF At(s, i) \in Whitespace THEN SkipWs(s, i + 1) ELSE i

--------------------------------------------------------------------------
(* json.loads.  A parsed value is kept as its canonical text (the tokens   *)
(* of the value without the whitespace between them); a parsed object also *)
(* keeps its members as <<key, value>> pairs.                               *)

ParseFail == [ok |-> FALSE, next |-> 0, canon |-> <<>>, pairs |-> <<>>]
Parsed(n, c, ps) == [ok |-> TRUE, next |-> n, canon |-> c, pairs |-> ps]

\* a string: from the quote at i to the next quote; a raw line break inside is an error
ParseString(s, i) ==
    LET rest == SubSeq(s, i + 1, Len(s))
        j == Find(rest, QUOTE)
    IN  IF At(s, i) # QUOTE \/ j = 0 THEN ParseFail
        ELSE IF \E k \in 1..(j - 1) : rest[k] = NL THEN ParseFail
        ELSE Parsed(i + j + 1, SubSeq(s, i, i + j), <<>>)

\* an integer: digits, or a minus sign and digits
ParseNumber(s, i) ==
    IF At(s, i) \in DigitRuns THEN Parsed(i + 1, <<s[i]>>, <<>>)
    ELSE IF At(s, i) = DASH /\ At(s, i + 1) \in DigitRuns
         THEN Parsed(i + 2, <<DASH, s[i + 1]>>, <<>>)
    ELSE ParseFail

RECURSIVE ParseValue(_, _)
RECURSIVE ParseMembers(_, _, _, _)
RECURSIVE ParseElements(_, _, _)

\* an object's members once the member's key and value are read: a closing
\* brace ends the object, a comma leads to the next member
MembersAfterValue(s, key, val, canon, pairs) ==
    LET m == SkipWs(s, val.next)
        canon2 == canon \o key.canon \o <<COLON>> \o val.canon
        pairs2 == Append(pairs, <<SubSeq(key.canon, 2, Len(key.canon) - 1), val.canon>>)
    IN  IF ~val.ok THEN ParseFail
        ELSE IF At(s, m) = RBRACE THEN Parsed(m + 1, canon2 \o <<RBRACE>>, pairs2)
        ELSE IF At(s, m) = COMMA
             THEN ParseMembers(s, SkipWs(s, m + 1), canon2 \o <<COMMA>>, pairs2)
        ELSE ParseFail

\* an object's members once the member's key is read: a colon and a value follow
MembersAfterKey(s, key, canon, pairs) ==
    IF ~key.ok \/ At(s, SkipWs(s, key.next)) # COLON THEN ParseFail
    ELSE Only({MembersAfterValue(s, key, val, canon, pairs) :
                  val \in {ParseValue(s, SkipWs(s, SkipWs(s, key.next) + 1))}})

\* the members of an object from the key at j on; canon and pairs hold what was read
ParseMembers(s, j, canon, pairs) ==
    Only({MembersAfterKey(s, key, canon, pairs) : key \in {ParseString(s, j)}})

\* an array's elements once an element is read
ElementsAfterValue(s, val, canon) ==
    LET m == SkipWs(s, val.next)
        canon2 == canon \o val.canon
    IN  IF ~val.ok THEN ParseFail
        ELSE IF At(s, m) = RBRACK THEN Parsed(m + 1, canon2 \o <<RBRACK>>, <<>>)
        ELSE IF At(s, m) = COMMA
             THEN ParseElements(s, SkipWs(s, m + 1), canon2 \o <<COMMA>>)
        ELSE ParseFail

\* the elements of an array from the value at j on
ParseElements(s, j, canon) ==
    Only({ElementsAfterValue(s, val, canon) : val \in {ParseValue(s, j)}})

ParseValue(s, i) ==
    LET t == At(s, i)
        j == SkipWs(s, i + 1)
    IN  IF t = LBRACE
        THEN IF At(s, j) = RBRACE THEN Parsed(j + 1, <<LBRACE, RBRACE>>, <<>>)
             ELSE ParseMembers(s, j, <<LBRACE>>, <<>>)
        ELSE IF t = LBRACK
        THEN IF At(s, j) = RBRACK THEN Parsed(j + 1, <<LBRACK, RBRACK>>, <<>>)
             ELSE ParseElements(s, j, <<LBRACK>>)
        ELSE IF t = QUOTE THEN ParseString(s, i)
        ELSE IF t \in JsonLiterals THEN Parsed(i + 1, <<t>>, <<>>)
        ELSE ParseNumber(s, i)

\* the dict of an object's members: a later member replaces an earlier one of the same key
DictOf(pairs) ==
    [k \in {pairs[n][1] : n \in 1..Len(pairs)} |->
        LET last == CHOOSE n \in 1..Len(pairs) :
                        /\ pairs[n][1] = k
                        /\ \A m \in 1..Len(pairs) : pairs[m][1] = k => m <= n
        IN  pairs[last][2]]

\* the result of json.loads once the value is read: nothing but whitespace may follow
LoadsResult(s, val) ==
    IF val.ok /\ SkipWs(s, val.next) > Len(s)
    THEN [ok |-> TRUE, canon |-> val.canon, dict |-> DictOf(val.pairs)]
    ELSE [ok |-> FALSE, canon |-> <<>>, dict |-> DictOf(<<>>)]

\* json.loads(s): one value with nothing but whitespace around it; JSONDecodeError otherwise
JsonLoads(s) ==
    Only({Only({LoadsResult(text, val) : val \in {ParseValue(text, SkipWs(text, 1))}}) :
              text \in {s}})

--------------------------------------------------------------------------
(* persona_gen._extract_json and the two textual repairs *)

StartsWith(s, tok) == Len(s) > 0 /\ s[1] = tok
EndsWith(s, tok) == Len(s) > 0 /\ s[Len(s)] = tok

\* the smallest member of a non-empty set of indices
MinOf(S) == CHOOSE i \in S : \A j \in S : i <= j

\* the index of the digits where r'("\w+"\s*:\s*)(\d+-\d+)' matches from index i:
\* a quoted word, a colon, digits-digits with optional whitespace around the colon
RangeStart(s, i) == SkipWs(s, SkipWs(s, i + 3) + 1)
RangeHit(s, i) ==
    /\ At(s, i) = QUOTE
    /\ IsWord(At(s, i + 1))
    /\ At(s, i + 2) = QUOTE
    /\ At(s, SkipWs(s, i + 3)) = COLON
    /\ At(s, RangeStart(s, i)) \in DigitRuns
    /\ At(s, RangeStart(s, i) + 1) = DASH
    /\ At(s, RangeStart(s, i) + 2) \in DigitRuns

\* re.sub(r'("\w+"\s*:\s*)(\d+-\d+)', r'\1"\2"', obj_str), from index i on: each
\* match, leftmost first, gets its digits-digits quoted
RECURSIVE QuoteRanges(_, _)
QuoteRanges(s, i) ==
    LET hits == {h \in i..Len(s) : RangeHit(s, h)}
        d == RangeStart(s, MinOf(hits))
    IN  IF hits = {} THEN SubSeq(s, i, Len(s))
        ELSE SubSeq(s, i, d - 1) \o <<QUOTE, s[d], DASH, s[d + 2], QUOTE>>
                 \o QuoteRanges(s, d + 3)

\* where r'("pain_points"\s*:\s*)\{\s*([^}]+?)\s*\}' matches from index i: the
\* quoted key, a colon, an opening brace, and a first closing brace with at
\* least one character before it
SetOpen(s, i) == SkipWs(s, SkipWs(s, i + 3) + 1)
SetClose(s, i) ==
    LET e == Find(SubSeq(s, SetOpen(s, i) + 1, Len(s)), RBRACE)
    IN  IF e = 0 THEN 0 ELSE SetOpen(s, i) + e
SetHit(s, i) ==
    /\ At(s, i) = QUOTE
    /\ At(s, i + 1) = "pain_points"
    /\ At(s, i + 2) = QUOTE
    /\ At(s, SkipWs(s, i + 3)) = COLON
    /\ At(s, SetOpen(s, i)) = LBRACE
    /\ SetClose(s, i) > SetOpen(s, i) + 1

\* re.sub(r'("pain_points"\s*:\s*)\{\s*([^}]+?)\s*\}', "\1[\2.strip()]", raw), from
\* index i on: each match, leftmost first, becomes brackets around the stripped content
RECURSIVE NormalizePainPoints(_, _)
NormalizePainPoints(s, i) ==
    LET hits == {h \in i..Len(s) : SetHit(s, h)}
        b == SetOpen(s, MinOf(hits))
        e == SetClose(s, MinOf(hits))
    IN  IF hits = {} THEN SubSeq(s, i, Len(s))
        ELSE SubSeq(s, i, b - 1) \o <<LBRACK>> \o Strip(SubSeq(s, b + 1, e - 1))
                 \o <<RBRACK>> \o NormalizePainPoints(s, e + 1)

\* a scan that stops at the first closing brace, whatever the depth
ScanCloseFirst(s, i, depth) ==
    IF \E j \in i..Len(s) : s[j] = RBRACE
    THEN CHOOSE j \in i..Len(s) : s[j] = RBRACE /\ \A k \in i..(j - 1) : s[k] # RBRACE
    ELSE 0

\* the brace scan: the index where the depth returns to zero, 0 when it never does
RECURSIVE ScanClose(_, _, _)
ScanClose(s, i, depth) ==
    IF i > Len(s) THEN 0
    ELSE IF s[i] = LBRACE THEN ScanClose(s, i + 1, depth + 1)
    ELSE IF s[i] = RBRACE
         THEN IF depth - 1 = 0 THEN i ELSE ScanClose(s, i + 1, depth - 1)
    ELSE ScanClose(s, i + 1, depth)

\* the code fences: text.split(fence)[1] when the text starts with a fence, then
\* text.rsplit(fence)[0] when it ends with one
StripFences(text) ==
    LET t1 == IF StartsWith(text, FENCE) THEN Split(text, FENCE)[2] ELSE text
    IN  IF EndsWith(t1, FENCE) THEN Split(t1, FENCE)[1] ELSE t1

ExtractError(e) == [ok |-> FALSE, err |-> e, dict |-> DictOf(<<>>), repaired |-> FALSE]
Extracted(d, rep) == [ok |-> TRUE, err |-> "", dict |-> d, repaired |-> rep]

\* `except json.JSONDecodeError`: quote the bare ranges and parse again; a second
\* JSONDecodeError is not caught
ParseRepaired(obj_str) ==
    Only({IF second.ok THEN Extracted(second.dict, TRUE) ELSE ExtractError("JSONDecodeError") :
             second \in {JsonLoads(QuoteRanges(obj_str, 1))}})

\* `try: return json.loads(obj_str)`
ParseCandidate(obj_str) ==
    Only({IF first.ok THEN Extracted(first.dict, FALSE) ELSE ParseRepaired(obj_str) :
             first \in {JsonLoads(obj_str)}})

\* the brace scan over the text left by the fence stripping
ExtractFrom(text) ==
    LET start == Find(text, LBRACE)
        close == ScanClose(text, start, 0)
    IN  IF start = 0 THEN ExtractError("No JSON object found in LLM output")
        ELSE IF close = 0 THEN ExtractError("Unmatched braces in LLM output")
        ELSE Only({ParseCandidate(obj_str) : obj_str \in {SubSeq(text, start, close)}})

\* persona_gen._extract_json(raw)
ExtractJson(raw) ==
    Only({Only({ExtractFrom(text) : text \in {StripFences(stripped)}}) :
             stripped \in {Strip(raw)}})

--------------------------------------------------------------------------
(* Properties of _call_groq_with_retries, checked under SpecInvoker *)

IsCall(e) == e.ev = "call"
IsSleep(e) == e.ev = "sleep"
\* the backend calls made so far, and the sleeps performed so far, in order
Calls == SelectSeq(events, IsCall)
Sleeps == SelectSeq(events, IsSleep)
\* every backend call so far was answered with the rate-limit status
AllRateLimited == \A i \in 1..Len(Calls) : Calls[i].status = STATUS_RATE_LIMIT
\* the call has ended, by a return or by a raise
Ended == ipc \in {"returned", "raised"}

\* C1: when the backend answers every call with 429, the invoker makes exactly
\* max_retries backend calls, never more and never fewer, then raises the
\* rate-limit error whose message names max_retries, and never returns a result.
C1_RateLimitExhaustion ==
    AllRateLimited =>
        /\ Len(Calls) <= max_retries
        /\ ipc # "returned"
        /\ (ipc = "loop" /\ Len(Calls) = max_retries) =>
               (ENABLED Exhausted /\ ~ENABLED CallRateLimited)
        /\ (ipc = "loop" /\ Len(Calls) < max_retries) => ~ENABLED Exhausted
        /\ ipc = "raised" =>
               /\ Len(Calls) = max_retries
               /\ iresult.kind = "RateLimitExceeded"
               /\ iresult.retries = max_retries

C1_Witness ==
    /\ ipc = "raised"
    /\ AllRateLimited
    /\ max_retries = DefaultMaxRetries
    /\ Len(Calls) = DefaultMaxRetries
    /\ iresult.kind = "RateLimitExceeded"

\* a response of the backend (not a transport error) that is neither ok nor a rate limit
IsOtherResponse(e) ==
    /\ IsCall(e)
    /\ e.status # TransportStatus
    /\ e.status \notin {STATUS_OK, STATUS_RATE_LIMIT}

\* C2: whenever the backend's response is neither ok (200) nor a rate-limit
\* signal (429), the invoker fails immediately with an upstream error: that
\* response is the last thing the call did (no later backend call, no sleep),
\* for every such status.
C2_OtherStatusFailsImmediately ==
    \A i \in 1..Len(events) :
        IsOtherResponse(events[i]) =>
            /\ i = Len(events)
            /\ ipc = "raised"
            /\ iresult.kind = "HTTPError"
            /\ iresult.status = events[i].status

\* C3: if attempt i is the first attempt answered ok and all earlier attempts
\* were rate-limited, the invoker returns the body of attempt i after exactly
\* i+1 backend calls and exactly i sleeps; the ok response is the last thing
\* the call did.
C3_FirstOkReturns ==
    \A n \in 1..Len(Calls) :
        ( /\ Calls[n].status = STATUS_OK
          /\ \A j \in 1..(n - 1) : Calls[j].status = STATUS_RATE_LIMIT ) =>
            /\ n <= max_retries
            /\ ipc = "returned"
            /\ iresult.kind = "return"
            /\ iresult.body = Calls[n].body
            /\ Len(Calls) = n
            /\ Len(Sleeps) = n - 1
            /\ events[Len(events)] = Calls[n]

C3_Witness ==
    /\ ipc = "returned"
    /\ Len(Calls) = 3
    /\ Len(Sleeps) = 2
    /\ Calls[1].status = STATUS_RATE_LIMIT
    /\ Calls[2].status = STATUS_RATE_LIMIT
    /\ Calls[3].status = STATUS_OK
    /\ iresult.body = "doc2"

\* C4: in a run where every attempt is rate-limited, the delay slept after
\* attempt k is backoff * 2^k + jitter with 0 <= jitter < 1 second; with the
\* default backoff of 1 second the delays are non-decreasing and each is at most
\* backoff * 2^(max_retries-1) + 1 second.  Times are in 1/Scale second.
C4_BackoffDelays ==
    AllRateLimited =>
        /\ Len(Sleeps) = Len(Calls)
        /\ \A k \in 0..(Len(Sleeps) - 1) :
              /\ Sleeps[k + 1].wait >= backoff * Pow2(k)
              /\ Sleeps[k + 1].wait < backoff * Pow2(k) + Scale
        /\ backoff = DefaultBackoff * Scale =>
              /\ \A k \in 1..(Len(Sleeps) - 1) : Sleeps[k].wait <= Sleeps[k + 1].wait
              /\ \A k \in 1..Len(Sleeps) :
                    Sleeps[k].wait <= backoff * Pow2(max_retries - 1) + Scale

C4_Witness ==
    /\ ipc = "raised"
    /\ AllRateLimited
    /\ backoff = DefaultBackoff * Scale
    /\ max_retries = DefaultMaxRetries
    /\ Len(Sleeps) = DefaultMaxRetries
    /\ Sleeps[1].wait = DefaultBackoff * Scale + (Scale - 1)
    /\ Sleeps[2].wait = 2 * DefaultBackoff * Scale
    /\ Sleeps[DefaultMaxRetries].wait > Sleeps[1].wait

--------------------------------------------------------------------------
(* The batch: cluster_embeddings *)

\* the largest number of profiles in a batch
MaxProfiles == 3
\* the largest cluster label the clustering method assigns
MaxLabel == 1
\* `if lbl == -1` (clustering.py:74), `if label == -1` (persona_gen.py:75)
NoiseLabel == -1

\* the labels fit_predict may assign
Labels == {NoiseLabel} \cup (0..MaxLabel)

\* the items of an ordered mapping: the keys it holds, and the index of a key
Keys(cl) == {cl[i].label : i \in 1..Len(cl)}
IndexOf(cl, lbl) == CHOOSE i \in 1..Len(cl) : cl[i].label = lbl

\* a noise test that lets every label through
IsNoiseLabelNever(lbl) == FALSE

\* `if lbl == -1: continue`
IsNoiseLabel(lbl) == lbl = NoiseLabel

\* an assembly that keeps only the last payload of a label
AddMemberOverwrite(cl, lbl, payload) ==
    IF lbl \in Keys(cl)
    THEN [cl EXCEPT ![IndexOf(cl, lbl)].members = <<payload>>]
    ELSE Append(cl, [label |-> lbl, members |-> <<payload>>])

\* clusters.setdefault(lbl, []).append(triple["payload"]): a new key goes last
AddMember(cl, lbl, payload) ==
    IF lbl \in Keys(cl)
    THEN [cl EXCEPT ![IndexOf(cl, lbl)].members = Append(@, payload)]
    ELSE Append(cl, [label |-> lbl, members |-> <<payload>>])

\* `for triple, lbl in zip(triples, labels)` from index i on
RECURSIVE Assemble(_, _, _, _)
Assemble(ts, ls, i, cl) ==
    IF i > Len(ts) \/ i > Len(ls) THEN cl
    ELSE IF IsNoiseLabel(ls[i]) THEN Assemble(ts, ls, i + 1, cl)
    ELSE Only({Assemble(ts, ls, i + 1, cl2) : cl2 \in {AddMember(cl, ls[i], ts[i])}})

--------------------------------------------------------------------------
(* The batch: generate_personas *)

KeyPersonaName == <<"persona_name">>
\* the keys the instruction message allows (persona_gen.py:88-89)
PersonaFields == {<<"persona_name">>, <<"demographics">>, <<"goals">>, <<"pain_points">>,
                  <<"channels">>, <<"content_preferences">>, <<"marketing_strategy">>}

\* str(label) in an f-string
LabelStr(l) ==
    CASE l = -1 -> "-1" [] l = 0 -> "0" [] l = 1 -> "1" [] l = 2 -> "2"
      [] l = 3 -> "3" [] OTHER -> "4"

\* ", ".join(names)
RECURSIVE JoinNames(_)
JoinNames(names) ==
    IF Len(names) = 0 THEN <<>>
    ELSE IF Len(names) = 1 THEN names[1]
    ELSE names[1] \o <<COMMA, SP>> \o JoinNames(Tail(names))

\* prev_list = ", ".join(generated_names) if generated_names else "none"
PrevList(names) == IF Len(names) > 0 THEN JoinNames(names) ELSE <<"none">>

\* the instruction message: "... for cluster {label}. Previously generated persona
\* names: {prev_list}. Ensure this persona is distinct ..."
SystemMsg(label, names) ==
    <<"cluster", SP, LabelStr(label), DOT, SP, "names", COLON, SP>>
        \o PrevList(names) \o <<DOT, SP, "Ensure">>

\* `if label == -1: continue`
IsNoiseKey(label) == label = NoiseLabel

\* the request sent for one cluster: the instruction message and the members
\* whose texts make the content message
Request(label, members, names) ==
    [label |-> label, system |-> SystemMsg(label, names), human |-> members]

\* persona.get("persona_name", "").strip() of a string value's content
TrackedName(content) == Strip(content)

\* the value of persona_name is a string (str.strip exists); any other value
\* makes .strip() raise AttributeError
IsStringValue(v) == Len(v) >= 2 /\ v[1] = QUOTE

\* the content of a string value, without its quotes
StringContent(v) == SubSeq(v, 2, Len(v) - 1)

\* persona.get("persona_name", "") is a string
NameIsString(dict) ==
    KeyPersonaName \in DOMAIN dict => IsStringValue(dict[KeyPersonaName])

\* name = persona.get("persona_name", "").strip()
NameOf(dict) ==
    IF KeyPersonaName \in DOMAIN dict
    THEN TrackedName(StringContent(dict[KeyPersonaName]))
    ELSE <<>>

\* a list that takes the new persona first
AddPersonaFirst(ps, persona) == <<persona>> \o ps

\* personas.append(persona)
AddPersona(ps, persona) == Append(ps, persona)

\* a bookkeeping that forgets the name
AddNameSkip(names, name) == names

\* `if name: generated_names.append(name)`
AddName(names, name) == IF Len(name) > 0 THEN Append(names, name) ELSE names

--------------------------------------------------------------------------
(* The texts the generative backend answers with *)

Str(w) == <<QUOTE, w, QUOTE>>
Member(k, v) == Str(k) \o <<COLON>> \o v
EmptyObject == <<LBRACE, RBRACE>>

\* an object with the seven persona keys: the name value and the pain_points value vary
PersonaText(nameValue, painValue) ==
    <<LBRACE>> \o Member("persona_name", nameValue)
        \o <<COMMA, SP>> \o Member("demographics", EmptyObject)
        \o <<COMMA>> \o Member("goals", EmptyObject)
        \o <<COMMA>> \o Member("pain_points", painValue)
        \o <<COMMA>> \o Member("channels", EmptyObject)
        \o <<COMMA>> \o Member("content_preferences", EmptyObject)
        \o <<COMMA>> \o Member("marketing_strategy", EmptyObject)
        \o <<RBRACE>>

PainList == <<LBRACK>> \o Str("a") \o <<RBRACK>>

TxtAnn == PersonaText(Str("Ann"), PainList)
\* the same inside a fenced block with a language tag
TxtBobFenced == <<FENCE, "json", NL>> \o PersonaText(Str("Bob"), PainList) \o <<NL, FENCE>>
\* a name with a trailing blank
TxtAnnPadded == PersonaText(<<QUOTE, "Ann", SP, QUOTE>>, PainList)
\* an object that lacks six of the seven keys
TxtNameOnly == <<LBRACE>> \o Member("persona_name", Str("Cy")) \o <<RBRACE>>
\* an object with an eighth key, whose bare range needs the quoting repair
TxtExtraKey ==
    <<LBRACE>> \o Member("age", <<"28", DASH, "35">>) \o <<COMMA, SP>>
        \o SubSeq(TxtAnn, 2, Len(TxtAnn))
\* a name that is a number
TxtNumericName == PersonaText(<<"1">>, PainList)
\* pain_points written as a set literal
TxtPainSet == PersonaText(Str("Bob"), <<LBRACE>> \o Str("a") \o <<COMMA, SP>> \o Str("b") \o <<RBRACE>>)
\* pain_points written as a JSON object: the text parses as it stands
TxtPainObject ==
    PersonaText(Str("Bob"), <<LBRACE>> \o Member("a", Str("b")) \o <<RBRACE>>)
\* prose without any object
TxtNoObject == <<"sorry">>

BackendTexts == {TxtAnn, TxtBobFenced, TxtAnnPadded, TxtNameOnly, TxtExtraKey,
                 TxtNumericName, TxtPainSet, TxtPainObject, TxtNoObject}

\* steps 4 and 5 of the loop body on the backend's text: the pain_points
\* normalisation, then _extract_json
ExtractPersona(raw) ==
    Only({ExtractJson(normalised) : normalised \in {NormalizePainPoints(raw, 1)}})

\* what steps 4 and 5 make of each text of the backend
ExtractTable == [t \in BackendTexts |-> ExtractPersona(t)]

\* what _extract_json makes of each text as the backend wrote it
DirectTable == [t \in BackendTexts |-> ExtractJson(t)]

--------------------------------------------------------------------------
(* The batch: process_profiles, and generate_personas called on its own *)

\* the invoker's variables of a run that holds no invoker call
InvokerIdle ==
    /\ max_retries = 0
    /\ backoff = 0
    /\ attempt = 0
    /\ events = <<>>
    /\ ipc = "idle"
    /\ iresult = NoResult

NoOutcome == [kind |-> "none", detail |-> <<>>, personas |-> <<>>]

\* the mappings a caller of generate_personas passes: up to two distinct keys,
\* the noise label among them
DirectClusters ==
    {<<>>}
    \cup {<<[label |-> a, members |-> <<1>>]>> : a \in Labels}
    \cup {<<[label |-> ab[1], members |-> <<1>>], [label |-> ab[2], members |-> <<2>>]>> :
              ab \in {x \in Labels \X Labels : x[1] # x[2]}}

\* the variables of the parts a batch does not hold
BatchAlone == InvokerIdle /\ ClusterIdle /\ ExtractIdle /\ PairIdle /\ LlmIdle

BatchInit ==
    /\ BatchAlone
    /\ entry \in {"process_profiles", "generate_personas"}
    /\ triples = <<>>
    /\ labels = <<>>
    /\ personas = <<>>
    /\ generated_names = <<>>
    /\ requests = <<>>
    /\ responses = <<>>
    /\ outcome = NoOutcome
    /\ IF entry = "process_profiles"
       THEN /\ pc = "PENDING"
            /\ \E n \in 0..MaxProfiles : profiles = [i \in 1..n |-> i]
            /\ clusters = <<>>
            /\ ck = 0
       ELSE /\ pc = "CLUSTERED"
            /\ profiles = <<>>
            /\ clusters \in DirectClusters
            /\ ck = 1

\* what the caller gets when the batch raises inside generate_personas:
\* HTTPException(500, "Cluster {label}: {e}"), which process_profiles catches and
\* replaces by HTTPException(500, "Internal server error")
ClusterFailure(label, e) ==
    IF entry = "process_profiles"
    THEN [kind |-> "HTTPException", detail |-> <<"Internal server error">>, personas |-> <<>>]
    ELSE [kind |-> "HTTPException", detail |-> <<"Cluster", LabelStr(label), e>>,
          personas |-> <<>>]

\* process_profiles: `except Exception` around the three steps
StepFailure ==
    [kind |-> "HTTPException", detail |-> <<"Internal server error">>, personas |-> <<>>]

\* triples = upsert_embeddings(profiles): one triple per profile, in order
Embed ==
    /\ pc = "PENDING"
    /\ triples' = profiles
    /\ pc' = "EMBEDDED"
    /\ UNCHANGED <<entry, profiles, labels, clusters, ck, personas, generated_names,
                   requests, responses, outcome>>
    /\ UNCHANGED besideBatch

\* upsert_embeddings raises (the embedder or the vector store fails)
EmbedFails ==
    /\ pc = "PENDING"
    /\ pc' = "FAILED"
    /\ outcome' = StepFailure
    /\ UNCHANGED <<entry, profiles, triples, labels, clusters, ck, personas,
                   generated_names, requests, responses>>
    /\ UNCHANGED besideBatch

\* cluster_embeddings on an empty list: return {} before any clustering
ClusterEmpty ==
    /\ pc = "EMBEDDED"
    /\ Len(triples) = 0
    /\ clusters' = <<>>
    /\ ck' = 1
    /\ pc' = "CLUSTERED"
    /\ UNCHANGED <<entry, profiles, triples, labels, personas, generated_names,
                   requests, responses, outcome>>
    /\ UNCHANGED besideBatch

\* cluster_embeddings: fit_predict assigns a label to each triple, then the
\* mapping is assembled
ClusterFit ==
    /\ pc = "EMBEDDED"
    /\ Len(triples) > 0
    /\ \E ls \in [1..Len(triples) -> Labels] :
        /\ labels' = ls
        /\ clusters' = Assemble(triples, ls, 1, <<>>)
    /\ ck' = 1
    /\ pc' = "CLUSTERED"
    /\ UNCHANGED <<entry, profiles, triples, personas, generated_names, requests,
                   responses, outcome>>
    /\ UNCHANGED besideBatch

\* cluster_embeddings raises: the vectors do not stack to a 2D array, or the
\* clustering method fails
ClusterFails ==
    /\ pc = "EMBEDDED"
    /\ Len(triples) > 0
    /\ pc' = "FAILED"
    /\ outcome' = StepFailure
    /\ UNCHANGED <<entry, profiles, triples, labels, clusters, ck, personas,
                   generated_names, requests, responses>>
    /\ UNCHANGED besideBatch

\* a loop test that ignores whether the call has ended
InLoopAnywhere == ck \in 1..Len(clusters)

\* generate_personas is inside its loop, at item ck
InLoop == pc \in {"CLUSTERED", "SYNTHESIZING"} /\ ck \in 1..Len(clusters)

\* `if label == -1: continue`
GenSkipNoise ==
    /\ InLoop
    /\ IsNoiseKey(clusters[ck].label)
    /\ ck' = ck + 1
    /\ UNCHANGED <<entry, pc, profiles, triples, labels, clusters, personas,
                   generated_names, requests, responses, outcome>>
    /\ UNCHANGED besideBatch

\* the loop body for a cluster: the request is built and sent
SendRequest ==
    requests' = Append(requests, Request(clusters[ck].label, clusters[ck].members,
                                         generated_names))

\* llm.invoke raises: the except clause raises HTTPException
SynthInvokeRaises ==
    /\ InLoop
    /\ ~IsNoiseKey(clusters[ck].label)
    /\ SendRequest
    /\ responses' = Append(responses, [raised |-> TRUE, raw |-> <<>>])
    /\ pc' = "FAILED"
    /\ outcome' = ClusterFailure(clusters[ck].label, "invoke failed")
    /\ UNCHANGED <<entry, profiles, triples, labels, clusters, ck, personas,
                   generated_names>>
    /\ UNCHANGED besideBatch

\* the backend answers, and _extract_json raises on the normalised text
SynthExtractFails ==
    /\ InLoop
    /\ ~IsNoiseKey(clusters[ck].label)
    /\ \E raw \in BackendTexts :
        /\ ~ExtractTable[raw].ok
        /\ SendRequest
        /\ responses' = Append(responses, [raised |-> FALSE, raw |-> raw])
        /\ outcome' = ClusterFailure(clusters[ck].label, ExtractTable[raw].err)
    /\ pc' = "FAILED"
    /\ UNCHANGED <<entry, profiles, triples, labels, clusters, ck, personas,
                   generated_names>>
    /\ UNCHANGED besideBatch

\* the persona is extracted and appended, then .strip() raises AttributeError
\* because persona_name is not a string
SynthNameFails ==
    /\ InLoop
    /\ ~IsNoiseKey(clusters[ck].label)
    /\ \E raw \in BackendTexts :
        /\ ExtractTable[raw].ok
        /\ ~NameIsString(ExtractTable[raw].dict)
        /\ SendRequest
        /\ responses' = Append(responses, [raised |-> FALSE, raw |-> raw])
        /\ personas' = AddPersona(personas, ExtractTable[raw].dict)
    /\ pc' = "FAILED"
    /\ outcome' = ClusterFailure(clusters[ck].label, "AttributeError")
    /\ UNCHANGED <<entry, profiles, triples, labels, clusters, ck, generated_names>>
    /\ UNCHANGED besideBatch

\* the persona is extracted and appended, and its name is tracked
SynthOk ==
    /\ InLoop
    /\ ~IsNoiseKey(clusters[ck].label)
    /\ \E raw \in BackendTexts :
        /\ ExtractTable[raw].ok
        /\ NameIsString(ExtractTable[raw].dict)
        /\ SendRequest
        /\ responses' = Append(responses, [raised |-> FALSE, raw |-> raw])
        /\ personas' = AddPersona(personas, ExtractTable[raw].dict)
        /\ generated_names' = AddName(generated_names, NameOf(ExtractTable[raw].dict))
    /\ ck' = ck + 1
    /\ pc' = "SYNTHESIZING"
    /\ UNCHANGED <<entry, profiles, triples, labels, clusters, outcome>>
    /\ UNCHANGED besideBatch

\* the loop is over: return personas (process_profiles wraps it in PersonasResponse)
GenReturn ==
    /\ pc \in {"CLUSTERED", "SYNTHESIZING"}
    /\ ck > Len(clusters)
    /\ pc' = "DONE"
    /\ outcome' = [kind |-> "return", detail |-> <<>>, personas |-> personas]
    /\ UNCHANGED <<entry, profiles, triples, labels, clusters, ck, personas,
                   generated_names, requests, responses>>
    /\ UNCHANGED besideBatch

Next ==
    \/ Embed
    \/ EmbedFails
    \/ ClusterEmpty
    \/ ClusterFit
    \/ ClusterFails
    \/ GenSkipNoise
    \/ SynthInvokeRaises
    \/ SynthExtractFails
    \/ SynthNameFails
    \/ SynthOk
    \/ GenReturn

Spec == BatchInit /\ [][Next]_vars

--------------------------------------------------------------------------
(* Properties of the batch, checked under Spec *)

IsClusterItem(c) == c.label # NoiseLabel
\* the items of the mapping that are clusters, in iteration order
NonNoise == SelectSeq(clusters, IsClusterItem)
\* generate_personas has been called
GenCalled == ck >= 1
\* the batch operation has returned or raised
BatchEnded == pc \in {"DONE", "FAILED"}
\* the backend answered request k with a text
Answered(k) == ~responses[k].raised
\* what the extraction made of the answer to request k
ExtractOf(k) == ExtractTable[responses[k].raw]
\* generation and extraction succeeded for request k
StepExtracted(k) == Answered(k) /\ ExtractOf(k).ok
\* generation and extraction succeeded for every cluster of the mapping
AllExtracted ==
    /\ Len(responses) = Len(NonNoise)
    /\ \A k \in 1..Len(responses) : StepExtracted(k)

\* the caller got the list of the personas extracted, one per cluster, in the
\* mapping's iteration order
ReturnedList ==
    /\ pc = "DONE"
    /\ outcome.kind = "return"
    /\ Len(outcome.personas) = Len(NonNoise)
    /\ Len(requests) = Len(NonNoise)
    /\ Len(responses) = Len(NonNoise)
    /\ \A k \in 1..Len(NonNoise) :
          /\ requests[k].label = NonNoise[k].label
          /\ requests[k].human = NonNoise[k].members
          /\ StepExtracted(k)
          /\ outcome.personas[k] = ExtractOf(k).dict

\* C5 as stated: when generation and extraction succeed for every cluster,
\* generate_personas returns the list of the extracted personas, one per
\* non-noise label, in the mapping's iteration order.
C5_Original ==
    (BatchEnded /\ GenCalled /\ AllExtracted) => ReturnedList

\* C5, amended: when generation and extraction succeed for every cluster and
\* every extracted persona_name is a string (or absent), generate_personas
\* returns the list of the extracted personas, one per non-noise label, in the
\* mapping's iteration order; and whenever it returns, the list is that one.
C5_ReturnsOnePersonaPerCluster ==
    /\ ( /\ BatchEnded
         /\ GenCalled
         /\ AllExtracted
         /\ \A k \in 1..Len(responses) : NameIsString(ExtractOf(k).dict) ) => ReturnedList
    /\ pc = "DONE" => ReturnedList

C5_Witness ==
    /\ entry = "process_profiles"
    /\ pc = "DONE"
    /\ labels = <<1, NoiseLabel, 0>>
    /\ Len(outcome.personas) = 2
    /\ responses[1].raw = TxtAnn
    /\ responses[2].raw = TxtBobFenced
    /\ outcome.personas[1] # outcome.personas[2]

\* the extracted object fails the validation against the fixed field set
KeyMismatch(k) == StepExtracted(k) /\ DOMAIN ExtractOf(k).dict # PersonaFields

\* C6: if generation, extraction or validation fails for the cluster at
\* position k, the batch is aborted: the operation raises, no persona is
\* delivered to the caller, and no request is issued for a later cluster.
C6_FailureAbortsBatch ==
    \A k \in 1..Len(responses) :
        (~StepExtracted(k) \/ KeyMismatch(k)) =>
            /\ k = Len(requests)
            /\ pc = "FAILED"
            /\ outcome.kind = "HTTPException"
            /\ outcome.personas = <<>>

\* the persona_name of a persona is a string
HasStringName(persona) ==
    KeyPersonaName \in DOMAIN persona /\ IsStringValue(persona[KeyPersonaName])

\* C7 as stated: the instruction message built for the cluster at position k
\* literally contains the persona name of every persona appended for the
\* positions before k.
C7_Original ==
    \A k \in 1..Len(requests) : \A j \in 1..(k - 1) :
        (j <= Len(personas) /\ HasStringName(personas[j])) =>
            Contains(requests[k].system, StringContent(personas[j][KeyPersonaName]))

\* C7, amended: the instruction message built for the cluster at position k
\* literally contains, for every persona appended for the positions before k,
\* its persona name with the surrounding whitespace stripped.
C7_MessageNamesEarlierPersonas ==
    \A k \in 1..Len(requests) : \A j \in 1..(k - 1) :
        /\ j <= Len(personas)
        /\ HasStringName(personas[j]) =>
              Contains(requests[k].system,
                       Strip(StringContent(personas[j][KeyPersonaName])))

C7_Witness ==
    /\ Len(requests) = 2
    /\ Len(personas) = 2
    /\ StringContent(personas[1][KeyPersonaName]) = <<"Ann", SP>>
    /\ Contains(requests[2].system, <<"Ann">>)
    /\ ~Contains(requests[2].system, <<"Ann", SP>>)

\* C8: an extracted object whose key set differs from the fixed Persona field
\* set is never appended to the output list; the batch fails with a validation
\* error instead.
C8_KeySetValidated ==
    /\ \A i \in 1..Len(personas) : DOMAIN personas[i] = PersonaFields
    /\ \A k \in 1..Len(responses) : KeyMismatch(k) => pc = "FAILED"

\* the payloads of all member lists
AllMembers == UNION {{clusters[c].members[m] : m \in 1..Len(clusters[c].members)} :
                        c \in 1..Len(clusters)}

\* C9: the mapping cluster_embeddings returns never has the noise label -1 as a
\* key and holds no payload of a triple labelled -1; generate_personas issues
\* no request and produces no persona for a key -1.
C9_NoiseNeverReachesPersonas ==
    /\ (entry = "process_profiles" /\ GenCalled) =>
          /\ NoiseLabel \notin Keys(clusters)
          /\ \A i \in 1..Len(labels) : labels[i] = NoiseLabel => triples[i] \notin AllMembers
    /\ \A k \in 1..Len(requests) : requests[k].label # NoiseLabel
    /\ Len(personas) <= Len(requests)
    /\ Len(requests) <= Len(NonNoise)

C9_Witness ==
    /\ entry = "process_profiles"
    /\ pc = "DONE"
    /\ labels = <<NoiseLabel, 0, NoiseLabel>>
    /\ Len(outcome.personas) = 1

\* the indices of the triples labelled l, and the k-th smallest of them
IndicesOf(l) == {i \in 1..Len(labels) : labels[i] = l}
KthIndex(l, k) == CHOOSE i \in IndicesOf(l) : Cardinality({j \in IndicesOf(l) : j <= i}) = k

RECURSIVE SumLens(_, _)
SumLens(cl, i) == IF i > Len(cl) THEN 0 ELSE Len(cl[i].members) + SumLens(cl, i + 1)

\* C10: every triple with a non-noise label contributes its payload exactly
\* once, to the member list of its own label and to no other; each member list
\* keeps the input order; the member lists together hold as many payloads as
\* there are non-noise triples.
C10_ClustersPartitionTriples ==
    (entry = "process_profiles" /\ GenCalled) =>
        /\ \A c, d \in 1..Len(clusters) : clusters[c].label = clusters[d].label => c = d
        /\ \A l \in Labels \ {NoiseLabel} : (l \in Keys(clusters)) <=> (IndicesOf(l) # {})
        /\ \A c \in 1..Len(clusters) :
              /\ Len(clusters[c].members) = Cardinality(IndicesOf(clusters[c].label))
              /\ \A k \in 1..Len(clusters[c].members) :
                    clusters[c].members[k] = triples[KthIndex(clusters[c].label, k)]
        /\ SumLens(clusters, 1) =
              Cardinality({i \in 1..Len(labels) : labels[i] # NoiseLabel})

C10_Witness ==
    /\ entry = "process_profiles"
    /\ GenCalled
    /\ labels = <<1, 0, 1>>
    /\ clusters = <<[label |-> 1, members |-> <<1, 3>>], [label |-> 0, members |-> <<2>>]>>

--------------------------------------------------------------------------
(* One call of cluster_embeddings(triples, min_cluster_fraction)            *)

\* the largest number of triples passed
MaxBatch == 5
\* a fraction is a multiple of 1/FracDen
FracDen == 4
\* the fractions tried: negative, zero, below and above 1
FracNums == (-1)..(FracDen + 2)

\* int(x) of the quotient num/den (den > 0): truncation toward zero
IntTrunc(num, den) == IF num >= 0 THEN num \div den ELSE -((-num) \div den)

MaxOf2(a, b) == IF a >= b THEN a ELSE b

\* a minimum size that rounds the product up
MinClusterSizeCeil(size, fnum) == MaxOf2(2, (size * fnum + FracDen - 1) \div FracDen)

\* min_cluster_size = max(2, int(n * min_cluster_fraction))
MinClusterSize(size, fnum) == MaxOf2(2, IntTrunc(size * fnum, FracDen))

\* an emptiness test that never answers yes
IsEmptyInputNever(size) == FALSE

\* `if n == 0`
IsEmptyInput(size) == size = 0

\* HDBSCAN(min_cluster_size=...).fit_predict(vectors)
FitCall(size, points) == [min_cluster_size |-> size, points |-> points]

\* the variables of the parts a call of cluster_embeddings does not hold
ClusterAlone == InvokerIdle /\ BatchIdle /\ ExtractIdle /\ PairIdle /\ LlmIdle

ClusterInit ==
    /\ ce_n \in 0..MaxBatch
    /\ min_cluster_fraction \in FracNums
    /\ min_cluster_size = 0
    /\ fit_calls = <<>>
    /\ ce_labels = <<>>
    /\ ce_pc = "called"
    /\ ce_result = NoClusterResult
    /\ ClusterAlone

\* n == 0: return {} before anything is computed
CEReturnEmpty ==
    /\ ce_pc = "called"
    /\ IsEmptyInput(ce_n)
    /\ ce_pc' = "returned"
    /\ ce_result' = [kind |-> "return", clusters |-> <<>>]
    /\ UNCHANGED <<ce_n, min_cluster_fraction, min_cluster_size, fit_calls, ce_labels>>
    /\ UNCHANGED besideCluster

\* np.vstack raises (a triple without "vector", rows of unequal length), or the
\* stacked array is not 2D: the error propagates
CEStackRaises ==
    /\ ce_pc = "called"
    /\ ~IsEmptyInput(ce_n)
    /\ ce_pc' = "raised"
    /\ ce_result' = [kind |-> "raise", clusters |-> <<>>]
    /\ UNCHANGED <<ce_n, min_cluster_fraction, min_cluster_size, fit_calls, ce_labels>>
    /\ UNCHANGED besideCluster

\* the vectors stack to a 2D array; the minimum cluster size is computed
CESize ==
    /\ ce_pc = "called"
    /\ ~IsEmptyInput(ce_n)
    /\ min_cluster_size' = MinClusterSize(ce_n, min_cluster_fraction)
    /\ ce_pc' = "sized"
    /\ UNCHANGED <<ce_n, min_cluster_fraction, fit_calls, ce_labels, ce_result>>
    /\ UNCHANGED besideCluster

\* fit_predict labels every point; the mapping is assembled and returned
CEFit ==
    /\ ce_pc = "sized"
    /\ fit_calls' = Append(fit_calls, FitCall(min_cluster_size, ce_n))
    /\ \E ls \in [1..ce_n -> Labels] :
        /\ ce_labels' = ls
        /\ ce_result' = [kind |-> "return",
                         clusters |-> Assemble([i \in 1..ce_n |-> i], ls, 1, <<>>)]
    /\ ce_pc' = "returned"
    /\ UNCHANGED <<ce_n, min_cluster_fraction, min_cluster_size>>
    /\ UNCHANGED besideCluster

\* the clustering method raises: the error propagates
CEFitRaises ==
    /\ ce_pc = "sized"
    /\ fit_calls' = Append(fit_calls, FitCall(min_cluster_size, ce_n))
    /\ ce_pc' = "raised"
    /\ ce_result' = [kind |-> "raise", clusters |-> <<>>]
    /\ UNCHANGED <<ce_n, min_cluster_fraction, min_cluster_size, ce_labels>>
    /\ UNCHANGED besideCluster

ClusterNext ==
    \/ CEReturnEmpty
    \/ CEStackRaises
    \/ CESize
    \/ CEFit
    \/ CEFitRaises

SpecCluster == ClusterInit /\ [][ClusterNext]_vars

--------------------------------------------------------------------------
(* Properties of cluster_embeddings, checked under SpecCluster *)

\* floor(n * f) for f = min_cluster_fraction / FracDen: the integer q with
\* q <= n * f < q + 1
FloorOfProduct ==
    CHOOSE q \in (-(MaxBatch + 1) * (FracDen + 4))..((MaxBatch + 1) * (FracDen + 4)) :
        /\ q * FracDen <= ce_n * min_cluster_fraction
        /\ ce_n * min_cluster_fraction < (q + 1) * FracDen

C12_EmptyInputSkipsClustering ==
    ce_n = 0 =>
        /\ fit_calls = <<>>
        /\ ce_pc \in {"idle", "called", "returned"}
        /\ ce_pc = "returned" => ce_result = [kind |-> "return", clusters |-> <<>>]

C12_Witness ==
    /\ ce_n = 0
    /\ ce_pc = "returned"
    /\ ce_result.kind = "return"
    /\ ce_result.clusters = <<>>
    /\ fit_calls = <<>>

--------------------------------------------------------------------------
(* business._extract_json: the fences are stripped line by line, and the    *)
(* candidate is parsed without a repair                                     *)

\* the largest index of tok in s, 0 when there is none
FindLast(s, tok) ==
    LET at == {i \in 1..Len(s) : s[i] = tok}
    IN  IF at = {} THEN 0 ELSE CHOOSE i \in at : \A j \in at : i >= j

\* "\n".join(txt.split("\n")[1:]): the text without its first line
DropFirstLine(txt) ==
    IF Find(txt, NL) = 0 THEN <<>> ELSE SubSeq(txt, Find(txt, NL) + 1, Len(txt))

\* "\n".join(txt.split("\n")[:-1]): the text without its last line
DropLastLine(txt) ==
    IF FindLast(txt, NL) = 0 THEN <<>> ELSE SubSeq(txt, 1, FindLast(txt, NL) - 1)

BizStripFences(txt) ==
    LET t1 == IF StartsWith(txt, FENCE) THEN DropFirstLine(txt) ELSE txt
    IN  IF EndsWith(t1, FENCE) THEN DropLastLine(t1) ELSE t1

\* `return json.loads(snippet)`: a JSONDecodeError propagates
BizParseCandidate(snippet) ==
    Only({IF first.ok THEN Extracted(first.dict, FALSE) ELSE ExtractError("JSONDecodeError") :
             first \in {JsonLoads(snippet)}})

BizExtractFrom(txt) ==
    LET start == Find(txt, LBRACE)
        close == ScanClose(txt, start, 0)
    IN  IF start = 0 THEN ExtractError("No JSON object found in LLM output")
        ELSE IF close = 0 THEN ExtractError("Unmatched braces in LLM output")
        ELSE Only({BizParseCandidate(snippet) : snippet \in {SubSeq(txt, start, close)}})

\* business._extract_json(raw)
BizExtractJson(raw) ==
    Only({Only({BizExtractFrom(txt) : txt \in {BizStripFences(stripped)}}) :
             stripped \in {Strip(raw)}})

--------------------------------------------------------------------------
(* Calls of the two extractors on one raw text *)

\* obj_str / snippet: the text from the first opening brace to the closing
\* brace the scan stops at
CandidateOf(text) ==
    LET start == Find(text, LBRACE)
        close == ScanClose(text, start, 0)
    IN  IF start = 0 \/ close = 0 THEN [found |-> FALSE, obj_str |-> <<>>]
        ELSE [found |-> TRUE, obj_str |-> SubSeq(text, start, close)]

\* what a call did: the text left by the fence stripping, the candidate of the
\* brace scan, and what was returned or raised
TraceOf(text, cand, res) ==
    [run |-> TRUE, text |-> text, found |-> cand.found, candidate |-> cand.obj_str,
     ok |-> res.ok, err |-> res.err, dict |-> res.dict, repaired |-> res.repaired]

PgTrace(raw) ==
    Only({Only({TraceOf(text, cand, res) : cand \in {CandidateOf(text)}}) :
             text \in {StripFences(Strip(raw))}, res \in {ExtractJson(raw)}})

BzTrace(raw) ==
    Only({Only({TraceOf(text, cand, res) : cand \in {CandidateOf(text)}}) :
             text \in {BizStripFences(Strip(raw))}, res \in {BizExtractJson(raw)}})

Obj(members) == <<LBRACE>> \o members \o <<RBRACE>>
Range(lo, hi) == <<lo, DASH, hi>>

\* object texts: plain, nested, with arrays, spread over lines, with braces or a
\* fence marker inside a string value, with bare numeric ranges after a key
ObjPlain == Obj(Member("a", <<"1">>))
ObjEmpty == EmptyObject
ObjNested == Obj(Member("a", Obj(Member("b", <<"1">>))))
ObjArray == Obj(Member("a", <<LBRACK, "1", COMMA>> \o Str("b") \o <<RBRACK>>))
ObjLines == <<LBRACE, NL, SP>> \o Str("a") \o <<COLON, SP, "1", NL, RBRACE>>
ObjFenceInString == Obj(Member("a", Str(FENCE)))
ObjCloseInString == Obj(Member("a", Str(RBRACE)))
ObjOpenInString == Obj(Member("a", Str(LBRACE)))
ObjQuotedRange == Obj(Member("age", <<QUOTE>> \o Range("28", "35") \o <<QUOTE>>))
ObjRange == Obj(Member("age", <<SP>> \o Range("28", "35")))
ObjTwoRanges ==
    Obj(Member("age", Range("28", "35")) \o <<COMMA>> \o Member("b", Range("1", "28")))
ObjNestedRange == Obj(Member("a", Obj(Member("age", Range("28", "35")))))
ObjRangeSpacedKey == Obj(<<QUOTE, "age", SP, "range", QUOTE, COLON>> \o Range("28", "35"))
ObjRangeAndBareWord ==
    Obj(Member("age", Range("28", "35")) \o <<COMMA>> \o Member("a", <<"b">>))
ObjBareWord == Obj(Member("a", <<"b">>))

ObjectTexts == {ObjPlain, ObjEmpty, ObjNested, ObjArray, ObjLines, ObjFenceInString,
                ObjCloseInString, ObjOpenInString, ObjQuotedRange, ObjRange, ObjTwoRanges,
                ObjNestedRange, ObjRangeSpacedKey, ObjRangeAndBareWord, ObjBareWord}

\* texts that are not one object: no brace, a brace left open, two objects, an
\* object among prose with a stray closing brace
TxtOpenOnly == <<LBRACE>> \o Member("a", <<"1">>)
TxtTwoObjects == ObjNested \o <<SP>> \o ObjPlain
TxtProseAround == <<RBRACE, SP, "sorry", SP>> \o ObjPlain \o <<SP, "bye", RBRACE>>

PlainTexts == ObjectTexts \cup {TxtNoObject, TxtOpenOnly, TxtTwoObjects, TxtProseAround}

\* what may surround a text in the backend's answer
Wraps == {"bare", "padded", "fenced", "fenced_tag", "preamble_fenced", "fenced_trailer",
          "closing_fence_only"}

Wrap(w, t) ==
    CASE w = "bare" -> t
      [] w = "padded" -> <<SP, NL>> \o t \o <<NL, SP>>
      [] w = "fenced" -> <<FENCE, NL>> \o t \o <<NL, FENCE>>
      [] w = "fenced_tag" -> <<FENCE, "json", NL>> \o t \o <<NL, FENCE>>
      [] w = "preamble_fenced" ->
            <<"sorry", COLON, NL, FENCE, "json", NL>> \o t \o <<NL, FENCE>>
      [] w = "fenced_trailer" ->
            <<FENCE, "json", NL>> \o t \o <<NL, FENCE, NL, "bye">>
      [] w = "closing_fence_only" -> t \o <<NL, FENCE>>

ExtractInputs == {Wrap(w, t) : w \in Wraps, t \in PlainTexts}

PgTable == [t \in ExtractInputs |-> PgTrace(t)]
BzTable == [t \in ExtractInputs |-> BzTrace(t)]

\* the variables of the parts a call of an extractor does not hold
ExtractAlone == InvokerIdle /\ BatchIdle /\ ClusterIdle /\ PairIdle /\ LlmIdle

ExtractInit ==
    /\ ex_obj \in PlainTexts
    /\ ex_wrap \in Wraps
    /\ ex_raw = Wrap(ex_wrap, ex_obj)
    /\ ex_pg = NoTrace
    /\ ex_pg_obj = NoTrace
    /\ ex_bz = NoTrace
    /\ ex_bz_obj = NoTrace
    /\ ExtractAlone

\* persona_gen._extract_json(ex_raw)
PgExtract ==
    /\ ~ex_pg.run
    /\ ex_pg' = PgTable[ex_raw]
    /\ UNCHANGED <<ex_obj, ex_wrap, ex_raw, ex_pg_obj, ex_bz, ex_bz_obj>>
    /\ UNCHANGED besideExtract

\* persona_gen._extract_json(ex_obj): the text on its own
PgExtractAlone ==
    /\ ~ex_pg_obj.run
    /\ ex_pg_obj' = PgTable[ex_obj]
    /\ UNCHANGED <<ex_obj, ex_wrap, ex_raw, ex_pg, ex_bz, ex_bz_obj>>
    /\ UNCHANGED besideExtract

\* business._extract_json(ex_raw)
BzExtract ==
    /\ ~ex_bz.run
    /\ ex_bz' = BzTable[ex_raw]
    /\ UNCHANGED <<ex_obj, ex_wrap, ex_raw, ex_pg, ex_pg_obj, ex_bz_obj>>
    /\ UNCHANGED besideExtract

\* business._extract_json(ex_obj): the text on its own
BzExtractAlone ==
    /\ ~ex_bz_obj.run
    /\ ex_bz_obj' = BzTable[ex_obj]
    /\ UNCHANGED <<ex_obj, ex_wrap, ex_raw, ex_pg, ex_pg_obj, ex_bz>>
    /\ UNCHANGED besideExtract

ExtractNext ==
    \/ PgExtract
    \/ PgExtractAlone
    \/ BzExtract
    \/ BzExtractAlone

SpecExtract == ExtractInit /\ [][ExtractNext]_vars

--------------------------------------------------------------------------
(* Properties of the extractors, checked under SpecExtract *)

\* the calls made so far
TracesRun == {tr \in {ex_pg, ex_pg_obj, ex_bz, ex_bz_obj} : tr.run}

BracesIn(text, tok, a, b) == Cardinality({j \in a..b : text[j] = tok})
\* the closing braces at which as many braces were closed as opened since index a
BalancedAfter(text, a) ==
    {i \in a..Len(text) :
        /\ text[i] = RBRACE
        /\ BracesIn(text, LBRACE, a, i) = BracesIn(text, RBRACE, a, i)}

CandidateAsStated(tr) ==
    LET opens == {i \in 1..Len(tr.text) : tr.text[i] = LBRACE}
        first == MinOf(opens)
        balanced == BalancedAfter(tr.text, first)
    IN  IF opens = {} \/ balanced = {}
        THEN ~tr.found /\ ~tr.ok /\ tr.err # "" /\ DOMAIN tr.dict = {}
        ELSE tr.found /\ tr.candidate = SubSeq(tr.text, first, MinOf(balanced))

\* C13: the candidate object text is the substring from the first opening
\* brace through the first closing brace at which the brace depth returns to
\* zero, braces inside strings counted like any other; with no opening brace,
\* or a depth that never returns to zero, extraction fails and returns no object.
C13_CandidateIsFirstBalancedSpan ==
    \A tr \in TracesRun : CandidateAsStated(tr)

C13_Witness ==
    /\ ex_pg.run
    /\ ex_bz.run
    /\ ex_obj = TxtTwoObjects
    /\ ex_wrap = "fenced_tag"
    /\ ex_pg.candidate = ObjNested
    /\ ex_bz.candidate = ObjNested
    /\ ex_pg.ok
    /\ ex_bz.ok

\* the wrapped text yields what the text yields on its own
SameAsAlone(alone, wrapped) ==
    (alone.run /\ wrapped.run /\ alone.ok) =>
        /\ wrapped.ok
        /\ wrapped.dict = alone.dict

\* a leading fence marker line, with or without a language tag, and a trailing one
FenceWraps == {"fenced", "fenced_tag"}

\* C14: for any object text the extractor accepts on its own, the text wrapped
\* in a leading fence marker line (with an optional language tag) and a trailing
\* fence marker line yields the same extracted object.
C14_FenceRoundTrip ==
    (ex_obj \in ObjectTexts /\ ex_wrap \in FenceWraps) =>
        /\ SameAsAlone(ex_pg_obj, ex_pg)
        /\ SameAsAlone(ex_bz_obj, ex_bz)

\* the last index before i that holds no whitespace, 0 when there is none
PrevToken(s, i) ==
    LET before == {j \in 1..(i - 1) : s[j] \notin Whitespace}
    IN  IF before = {} THEN 0 ELSE CHOOSE j \in before : \A k \in before : k <= j

\* a bare numeric range that follows a key: digits, hyphen, digits after the colon
BareRangeAt(s, i) ==
    /\ At(s, i) \in DigitRuns
    /\ At(s, i + 1) = DASH
    /\ At(s, i + 2) \in DigitRuns
    /\ At(s, PrevToken(s, i)) = COLON

\* the text with every such range quoted
RECURSIVE WithRangesQuoted(_, _)
WithRangesQuoted(s, i) ==
    IF i > Len(s) THEN <<>>
    ELSE IF BareRangeAt(s, i)
         THEN <<QUOTE, s[i], DASH, s[i + 2], QUOTE>> \o WithRangesQuoted(s, i + 3)
    ELSE <<s[i]>> \o WithRangesQuoted(s, i + 1)

\* C15: when the candidate fails to parse only because a key is followed by a
\* bare numeric range, the extractor returns the object with every such range
\* as a string and the other fields unchanged; when the repaired text still
\* does not parse, extraction fails.
C15_RangeRepair ==
    (ex_pg.run /\ ex_pg.found) =>
        LET quoted == JsonLoads(WithRangesQuoted(ex_pg.candidate, 1))
        IN  IF JsonLoads(ex_pg.candidate).ok THEN ex_pg.ok /\ ~ex_pg.repaired
            ELSE IF quoted.ok THEN ex_pg.ok /\ ex_pg.dict = quoted.dict
            ELSE ~ex_pg.ok /\ ex_pg.err = "JSONDecodeError"

\* a fence marker on one side only, or content after the closing fence
PartFenceWraps == {"preamble_fenced", "closing_fence_only", "fenced_trailer"}

\* the object of the text alone is located in the wrapped text
LocatedAsAlone(alone, wrapped) ==
    (alone.run /\ wrapped.run /\ alone.ok) =>
        /\ wrapped.found
        /\ wrapped.candidate = alone.candidate
        /\ wrapped.ok
        /\ wrapped.dict = alone.dict

\* C20: fence stripping removes only the fence marker lines: for a text that
\* ends with a fence marker but does not begin with one, and for a text that
\* begins with a fence and has content after the closing fence, the object
\* present in the text is still located and extracted.
C20_PartialFencesKeepObject ==
    (ex_obj \in ObjectTexts /\ ex_wrap \in PartFenceWraps) =>
        /\ LocatedAsAlone(ex_pg_obj, ex_pg)
        /\ LocatedAsAlone(ex_bz_obj, ex_bz)

--------------------------------------------------------------------------
(* The batch as a state machine, and what its caller sees; checked under Spec *)

\* the number of clusters whose synthesis was started
Started == Len(requests)

\* a step of the state machine PENDING -> EMBEDDED -> CLUSTERED ->
\* SYNTHESIZING(0) -> ... -> SYNTHESIZING(K-1) -> DONE, with FAILED reachable
\* from every state but DONE; the step to SYNTHESIZING(k) starts the k-th cluster
MachineStep ==
    \/ pc = "PENDING" /\ pc' \in {"EMBEDDED", "FAILED"} /\ Started' = 0
    \/ pc = "EMBEDDED" /\ pc' \in {"CLUSTERED", "FAILED"} /\ Started' = 0
    \/ /\ pc \in {"CLUSTERED", "SYNTHESIZING"}
       /\ pc' = "SYNTHESIZING"
       /\ Started' = Started + 1
       /\ Started' <= Len(NonNoise)
       /\ requests'[Started'].label = NonNoise[Started'].label
       /\ clusters' = clusters
    \/ /\ pc \in {"CLUSTERED", "SYNTHESIZING"}
       /\ pc' = "FAILED"
       /\ Started' \in {Started, Started + 1}
    \/ /\ pc \in {"CLUSTERED", "SYNTHESIZING"}
       /\ pc' = "DONE"
       /\ Started' = Started
       /\ Started = Len(NonNoise)

\* C16: a batch of process_profiles moves through PENDING -> EMBEDDED ->
\* CLUSTERED -> SYNTHESIZING(k), k = 0..K-1 in increasing order -> DONE, or to
\* FAILED from the state the error occurs in; no state is entered twice, DONE and
\* FAILED are terminal, and a failed batch never resumes.
C16_BatchStateMachine ==
    [][entry = "process_profiles" => MachineStep]_<<pc, requests, clusters, outcome>>

C16_Witness ==
    /\ entry = "process_profiles"
    /\ pc = "DONE"
    /\ Started = 2
    /\ Len(NonNoise) = 2
    /\ Len(outcome.personas) = 2

\* the parts of the failure the caller received
DetailParts == {outcome.detail[i] : i \in 1..Len(outcome.detail)}

\* C17: every pipeline failure reaches the caller of the batch operation with its
\* diagnostic context: a synthesis failure carries the offending cluster label
\* and the raw generated text; no failure is replaced by a context-free error.
C17_FailuresCarryContext ==
    pc = "FAILED" =>
        /\ outcome.kind = "HTTPException"
        /\ outcome.detail # <<"Internal server error">>
        /\ Started > 0 =>
              /\ LabelStr(requests[Started].label) \in DetailParts
              /\ Answered(Started) => responses[Started].raw \in DetailParts

\* C19: in every persona list a successful batch returns, the persona names are
\* pairwise distinct, whatever text the backend returns.
C19_ReturnedNamesDistinct ==
    pc = "DONE" =>
        \A i, j \in 1..Len(outcome.personas) :
            /\ i # j
            /\ HasStringName(outcome.personas[i])
            /\ HasStringName(outcome.personas[j])
            => outcome.personas[i][KeyPersonaName] # outcome.personas[j][KeyPersonaName]

--------------------------------------------------------------------------
(* Two calls of generate_personas running concurrently against the same     *)
(* backend.  personas and generated_names are locals of each call           *)
(* (persona_gen.py:71-72); the steps of the two calls interleave freely.    *)

Batches == {1, 2}

\* the mappings the two calls are given
PairClusters ==
    { <<[label |-> 0, members |-> <<1>>]>>,
      <<[label |-> 0, members |-> <<1>>], [label |-> 1, members |-> <<2>>]>>,
      <<[label |-> NoiseLabel, members |-> <<1>>], [label |-> 0, members |-> <<2>>]>> }

\* the texts the backend answers the two calls with
PairTexts == {TxtAnn, TxtBobFenced, TxtAnnPadded, TxtNumericName, TxtNoObject}

NewRun(cl) ==
    [clusters |-> cl, ck |-> 1, personas |-> <<>>, generated_names |-> <<>>,
     requests |-> <<>>, responses |-> <<>>, pc |-> "CLUSTERED", outcome |-> NoOutcome]

\* a names list that both calls would share
NamesSeenShared(b, rs) == rs[1].generated_names \o rs[2].generated_names

\* generated_names as call b sees it: its own local list
NamesSeen(b, rs) == rs[b].generated_names

\* the variables of the parts the concurrent calls do not hold
PairAlone == InvokerIdle /\ BatchIdle /\ ClusterIdle /\ ExtractIdle /\ LlmIdle

PairInit ==
    /\ runs \in [Batches -> {NewRun(cl) : cl \in PairClusters}]
    /\ schedule = <<>>
    /\ PairAlone

RunInLoop(b) ==
    /\ runs[b].pc \in {"CLUSTERED", "SYNTHESIZING"}
    /\ runs[b].ck \in 1..Len(runs[b].clusters)

RunItem(b) == runs[b].clusters[runs[b].ck]

\* the request call b builds for its current item
RunRequest(b) == Request(RunItem(b).label, RunItem(b).members, NamesSeen(b, runs))

\* call b took a step that left its run as r
RunBecomes(b, r) ==
    /\ runs' = [runs EXCEPT ![b] = r]
    /\ schedule' = Append(schedule, b)
    /\ UNCHANGED besidePair

\* `if label == -1: continue`
PairSkipNoise ==
    \E b \in Batches :
        /\ RunInLoop(b)
        /\ IsNoiseKey(RunItem(b).label)
        /\ RunBecomes(b, [runs[b] EXCEPT !.ck = @ + 1])

\* llm.invoke raises
PairInvokeRaises ==
    \E b \in Batches :
        /\ RunInLoop(b)
        /\ ~IsNoiseKey(RunItem(b).label)
        /\ RunBecomes(b, [runs[b] EXCEPT
                            !.requests = Append(@, RunRequest(b)),
                            !.responses = Append(@, [raised |-> TRUE, raw |-> <<>>]),
                            !.pc = "FAILED",
                            !.outcome = ClusterFailure(RunItem(b).label, "invoke failed")])

\* the backend answers, and _extract_json raises
PairExtractFails ==
    \E b \in Batches : \E raw \in PairTexts :
        /\ RunInLoop(b)
        /\ ~IsNoiseKey(RunItem(b).label)
        /\ ~ExtractTable[raw].ok
        /\ RunBecomes(b, [runs[b] EXCEPT
                            !.requests = Append(@, RunRequest(b)),
                            !.responses = Append(@, [raised |-> FALSE, raw |-> raw]),
                            !.pc = "FAILED",
                            !.outcome = ClusterFailure(RunItem(b).label,
                                                       ExtractTable[raw].err)])

\* the persona is appended, then .strip() raises on a name that is no string
PairNameFails ==
    \E b \in Batches : \E raw \in PairTexts :
        /\ RunInLoop(b)
        /\ ~IsNoiseKey(RunItem(b).label)
        /\ ExtractTable[raw].ok
        /\ ~NameIsString(ExtractTable[raw].dict)
        /\ RunBecomes(b, [runs[b] EXCEPT
                            !.requests = Append(@, RunRequest(b)),
                            !.responses = Append(@, [raised |-> FALSE, raw |-> raw]),
                            !.personas = AddPersona(@, ExtractTable[raw].dict),
                            !.pc = "FAILED",
                            !.outcome = ClusterFailure(RunItem(b).label, "AttributeError")])

\* the persona is appended and its name is tracked
PairSynthOk ==
    \E b \in Batches : \E raw \in PairTexts :
        /\ RunInLoop(b)
        /\ ~IsNoiseKey(RunItem(b).label)
        /\ ExtractTable[raw].ok
        /\ NameIsString(ExtractTable[raw].dict)
        /\ RunBecomes(b, [runs[b] EXCEPT
                            !.requests = Append(@, RunRequest(b)),
                            !.responses = Append(@, [raised |-> FALSE, raw |-> raw]),
                            !.personas = AddPersona(@, ExtractTable[raw].dict),
                            !.generated_names = AddName(@, NameOf(ExtractTable[raw].dict)),
                            !.ck = @ + 1,
                            !.pc = "SYNTHESIZING"])

\* `return personas`
PairReturn ==
    \E b \in Batches :
        /\ runs[b].pc \in {"CLUSTERED", "SYNTHESIZING"}
        /\ runs[b].ck > Len(runs[b].clusters)
        /\ RunBecomes(b, [runs[b] EXCEPT
                            !.pc = "DONE",
                            !.outcome = [kind |-> "return", detail |-> <<>>,
                                         personas |-> runs[b].personas]])

PairNext ==
    \/ PairSkipNoise
    \/ PairInvokeRaises
    \/ PairExtractFails
    \/ PairNameFails
    \/ PairSynthOk
    \/ PairReturn

SpecPair == PairInit /\ [][PairNext]_vars

--------------------------------------------------------------------------
(* Properties of concurrent calls, checked under SpecPair *)

\* the names a call running alone has tracked after its first j answers
RECURSIVE OwnNames(_, _)
OwnNames(resps, j) ==
    IF j = 0 THEN <<>>
    ELSE LET name == NameOf(ExtractTable[resps[j].raw].dict)
         IN  IF name = <<>> THEN OwnNames(resps, j - 1)
             ELSE Append(OwnNames(resps, j - 1), name)

\* the outcome of generate_personas(cl) running alone, when the backend answers
\* its requests with resps in order: k is the next item, r the next answer
RECURSIVE SoloOutcome(_, _, _, _, _)
SoloOutcome(cl, resps, k, r, ps) ==
    IF k > Len(cl) THEN [kind |-> "return", detail |-> <<>>, personas |-> ps]
    ELSE IF cl[k].label = NoiseLabel THEN SoloOutcome(cl, resps, k + 1, r, ps)
    ELSE IF r > Len(resps) THEN NoOutcome
    ELSE IF resps[r].raised THEN ClusterFailure(cl[k].label, "invoke failed")
    ELSE IF ~ExtractTable[resps[r].raw].ok
         THEN ClusterFailure(cl[k].label, ExtractTable[resps[r].raw].err)
    ELSE IF ~NameIsString(ExtractTable[resps[r].raw].dict)
         THEN ClusterFailure(cl[k].label, "AttributeError")
    ELSE SoloOutcome(cl, resps, k + 1, r + 1, Append(ps, ExtractTable[resps[r].raw].dict))

--------------------------------------------------------------------------
(* The repairs and the text as the backend wrote it; checked under Spec *)

\* the candidate object of the raw text parses as it stands
ParsesAsItStands(raw) == DirectTable[raw].ok /\ ~DirectTable[raw].repaired

\* C21: repairs are applied only after the candidate object failed to parse:
\* whenever the raw text holds a candidate object that parses as it stands, the
\* persona recorded for that cluster equals that parse, unaltered by the
\* set-literal repair or the range-quoting repair.
C21_RepairsOnlyAfterParseFailure ==
    \A k \in 1..Len(responses) :
        (Answered(k) /\ ParsesAsItStands(responses[k].raw)) =>
            /\ k <= Len(personas)
            /\ personas[k] = DirectTable[responses[k].raw].dict

--------------------------------------------------------------------------
(* The loop body of generate_personas for one cluster, with the backend     *)
(* calls of llm.invoke.  llm is ChatGroq(max_retries=2, timeout=None): the  *)
(* client makes one call and at most max_retries further ones.              *)

\* ChatGroq(..., max_retries=2, ...) (persona_gen.py:26)
LlmMaxRetries == 2
\* requests.post(..., timeout=30) (business.py:31)
InvokerTimeout == 30

\* the configuration of llm; timeout=None is the empty sequence
LlmConfig == [via |-> "ChatGroq", max_retries |-> LlmMaxRetries, timeout |-> <<>>]
\* the policy of _call_groq_with_retries
InvokerPolicy ==
    [via |-> "_call_groq_with_retries", max_retries |-> DefaultMaxRetries,
     timeout |-> <<InvokerTimeout>>]

\* the lists of names a loop body may start with
LlmNameLists == {<<>>, << <<"Ann">> >>}

\* the variables of the parts the loop body does not hold
LlmAlone == InvokerIdle /\ BatchIdle /\ ClusterIdle /\ ExtractIdle /\ PairIdle

LlmInit ==
    /\ llm_label \in 0..MaxLabel
    /\ llm_names \in LlmNameLists
    /\ llm_calls = <<>>
    /\ llm_pc = "invoking"
    /\ llm_result = NoLlmResult
    /\ LlmAlone

\* the client may call the backend again after `made` calls
LlmMayRetry(made) == made < 1 + LlmConfig.max_retries

\* `except Exception as e: raise HTTPException(500, f"Cluster {label}: {e}")`
LlmFailure(e) ==
    [kind |-> "HTTPException", detail |-> <<"Cluster", LabelStr(llm_label), e>>,
     persona |-> <<>>]

\* the backend answers ok: the text is normalised and extracted, the persona
\* is appended and its name stripped; each of these may raise
LlmAnswered ==
    /\ llm_pc = "invoking"
    /\ llm_calls' = Append(llm_calls, STATUS_OK)
    /\ \E raw \in BackendTexts :
          IF ~ExtractTable[raw].ok
          THEN llm_pc' = "raised" /\ llm_result' = LlmFailure(ExtractTable[raw].err)
          ELSE IF ~NameIsString(ExtractTable[raw].dict)
          THEN llm_pc' = "raised" /\ llm_result' = LlmFailure("AttributeError")
          ELSE /\ llm_pc' = "appended"
               /\ llm_result' = [kind |-> "persona", detail |-> NameOf(ExtractTable[raw].dict),
                                 persona |-> ExtractTable[raw].dict]
    /\ llm_names' = IF llm_pc' = "appended"
                    THEN AddName(llm_names, llm_result'.detail)
                    ELSE llm_names
    /\ UNCHANGED llm_label
    /\ UNCHANGED besideLlm

\* the backend answers with the rate-limit status: the client calls again while
\* it has retries left, then llm.invoke raises and the except clause takes over
LlmRateLimited ==
    /\ llm_pc = "invoking"
    /\ llm_calls' = Append(llm_calls, STATUS_RATE_LIMIT)
    /\ IF LlmMayRetry(Len(llm_calls) + 1)
       THEN UNCHANGED <<llm_pc, llm_result>>
       ELSE llm_pc' = "raised" /\ llm_result' = LlmFailure("RateLimitError")
    /\ UNCHANGED <<llm_label, llm_names>>
    /\ UNCHANGED besideLlm

\* the backend answers with another failure status, or the call itself fails:
\* llm.invoke raises
LlmCallFails ==
    /\ llm_pc = "invoking"
    /\ \E status \in {s \in Statuses : RaisesForStatus(s) /\ s # STATUS_RATE_LIMIT}
                     \cup {TransportStatus} :
          llm_calls' = Append(llm_calls, status)
    /\ llm_pc' = "raised"
    /\ llm_result' = LlmFailure("APIError")
    /\ UNCHANGED <<llm_label, llm_names>>
    /\ UNCHANGED besideLlm

LlmNext ==
    \/ LlmAnswered
    \/ LlmRateLimited
    \/ LlmCallFails

SpecLlm == LlmInit /\ [][LlmNext]_vars

\* every backend call of the loop body was answered with the rate-limit status
LlmAllRateLimited == \A i \in 1..Len(llm_calls) : llm_calls[i] = STATUS_RATE_LIMIT

\* C22: each cluster's generation request is issued under the policy
\* max_retries=5, base_backoff=1.0 s, timeout=30 s of the retrying invoker, so a
\* cluster whose every backend call is rate-limited is attempted exactly 5 times
\* before the batch aborts with the rate-limit-exceeded error.
C22_SynthesisUsesInvokerPolicy ==
    (llm_pc = "raised" /\ Len(llm_calls) > 0 /\ LlmAllRateLimited) =>
        /\ Len(llm_calls) = InvokerPolicy.max_retries
        /\ LlmConfig.timeout = InvokerPolicy.timeout
        /\ llm_result.kind = "RateLimitExceeded"

--------------------------------------------------------------------------
(* Termination of _call_groq_with_retries.  The function is sequential code *)
(* with no wait other than the bounded sleep and the post under its         *)
(* timeout, so a step that is enabled is eventually taken.                  *)

SpecInvokerLive == SpecInvoker /\ WF_vars(InvokerNext)

\* what a finished call left behind: a returned body or a raised error
EndsByReturnOrRaise ==
    /\ ipc = "returned" => iresult.kind = "return"
    /\ ipc = "raised" =>
           iresult.kind \in {"HTTPError", "RequestException", "RateLimitExceeded"}

\* every sleep comes directly after a backend call answered with the rate-limit status
SleepsFollowRateLimit ==
    \A i \in 1..Len(events) :
        IsSleep(events[i]) =>
            /\ i > 1
            /\ IsCall(events[i - 1])
            /\ events[i - 1].status = STATUS_RATE_LIMIT

\* with max_retries = 0 no backend call is made and the call can only raise
ZeroRetriesRaises ==
    max_retries = 0 =>
        /\ events = <<>>
        /\ ipc # "returned"
        /\ ipc = "raised" => iresult.kind = "RateLimitExceeded"

\* C23: for every sequence of backend outcomes (ok, rate limit, any other
\* status, a raised transport error) the invoker terminates after at most
\* max_retries backend calls, ending by returning a response body or by raising
\* an error; a sleep happens only directly after a rate-limit response; with
\* max_retries = 0 it raises without making any call.
C23_InvokerTerminates ==
    /\ [](Len(Calls) <= max_retries)
    /\ []EndsByReturnOrRaise
    /\ []SleepsFollowRateLimit
    /\ []ZeroRetriesRaises
    /\ <>Ended

C23_Witness ==
    /\ ipc = "raised"
    /\ max_retries = 3
    /\ Len(Calls) = 3
    /\ Calls[1].status = STATUS_RATE_LIMIT
    /\ Calls[2].status = 201
    /\ Calls[3].status = TransportStatus
    /\ Len(Sleeps) = 1
    /\ iresult.kind = "RequestException"

==========================================================================
